---- MODULE Spec2Model ----
(***************************************************************************)
(* A model of CourseProgressions.py: the course-progression planner.       *)
(* Course codes are sequences of one-character strings, so that the        *)
(* prefix, slice and digit tests of the source are computed on the code    *)
(* text itself.  CPVs (A.BCD) are integers in thousandths: 1.130 is 1130.  *)
(***************************************************************************)
EXTENDS Integers, Sequences, FiniteSets, TLC

\* ------------------------------------------------------------------------
\* Parameters and settings
\* ------------------------------------------------------------------------
ELECTIVE_PREFIX == <<"E", "l", "e", "c", "t", "i", "v", "e">>

LOAD == 4

COURSES_NEEDED == 24

MAX_SEMESTERS == 10

\* Python's None, as returned by allocate_elective: no course code equals it.
None == <<"None">>

\* The outcome of level() when int() or the index raises.
Raise == -1

\* ------------------------------------------------------------------------
\* Strings
\* ------------------------------------------------------------------------
DigitChar == <<"0", "1", "2", "3", "4", "5", "6", "7", "8", "9">>

\* The characters used in codes, in code-point order (Python compares str
\* values by code point).
Ascii ==
    <<".", "0", "1", "2", "3", "4", "5", "6", "7", "8", "9",
      "A", "B", "C", "D", "E", "I", "O", "R", "S", "T", "U", "X", "Y", "Z",
      "c", "e", "i", "l", "t", "v">>

Ord(ch) == CHOOSE i \in 1..Len(Ascii) : Ascii[i] = ch

Min2(a, b) == IF a <= b THEN a ELSE b

\* s < t on str: the first differing character decides, a proper prefix is less.
StrLess(s, t) ==
    \/ /\ Len(s) < Len(t)
       /\ \A i \in 1..Len(s) : s[i] = t[i]
    \/ \E i \in 1..Min2(Len(s), Len(t)) :
          /\ \A j \in 1..(i - 1) : s[j] = t[j]
          /\ Ord(s[i]) < Ord(t[i])

StrLeq(s, t) == s = t \/ StrLess(s, t)

\* str.startswith
startswith(s, prefix) ==
    /\ Len(s) >= Len(prefix)
    /\ SubSeq(s, 1, Len(prefix)) = prefix

\* s[n:] for a 0-based n >= 0
SliceFrom(s, n) == SubSeq(s, n + 1, Len(s))

\* int(s[n]) for a 0-based n; Raise on IndexError or ValueError
IntAt(s, n) ==
    IF n + 1 > Len(s) THEN Raise
    ELSE IF \E d \in 1..10 : DigitChar[d] = s[n + 1]
         THEN (CHOOSE d \in 1..10 : DigitChar[d] = s[n + 1]) - 1
         ELSE Raise

\* ------------------------------------------------------------------------
\* Course
\* ------------------------------------------------------------------------
Course(code, cpv) == [code |-> code, cpv |-> cpv]

is_done(course, done) == course.code \in done

is_elective(course) == startswith(course.code, ELECTIVE_PREFIX)

\* Equality of Course objects without __eq__: the same object, code and CPV
CourseEq_SameObject(c, d) == c = d

\* Course.__eq__: two courses are equal iff they have the same code
CourseEq(c, d) == c.code = d.code

\* c in todo, for a set todo of Course objects hashed and compared by code
InTodo(c, todo) == \E t \in todo : CourseEq(c, t)

level(code) ==
    IF startswith(code, ELECTIVE_PREFIX)
    THEN IntAt(code, Len(ELECTIVE_PREFIX))
    ELSE IntAt(code, 3)

\* ------------------------------------------------------------------------
\* Helpers of the planner
\* ------------------------------------------------------------------------
\* get_rank with the position of the last course with this code
get_rank_LastOccurrence(code, program) ==
    IF \E i \in 1..Len(program) : program[i].code = code
    THEN (CHOOSE i \in 1..Len(program) :
             /\ program[i].code = code
             /\ \A j \in (i + 1)..Len(program) : program[j].code # code) - 1
    ELSE 0

\* get_rank: the 0-based position of the first course with this code, else 0
get_rank(code, program) ==
    IF \E i \in 1..Len(program) : program[i].code = code
    THEN (CHOOSE i \in 1..Len(program) :
             /\ program[i].code = code
             /\ \A j \in 1..(i - 1) : program[j].code # code) - 1
    ELSE 0

\* (r1, c1) < (r2, c2) on Python tuples of (int, str)
RankedLess(p, q) == p[1] < q[1] \/ (p[1] = q[1] /\ StrLess(p[2], q[2]))

\* sorted(ranked) for a set of distinct (rank, code) pairs
RECURSIVE SortRanked(_)
SortRanked(S) ==
    IF S = {} THEN <<>>
    ELSE LET m == CHOOSE p \in S : \A q \in S \ {p} : RankedLess(p, q)
         IN  <<m>> \o SortRanked(S \ {m})

\* The loop of pretty over ranked[1:], carrying prev_cpv; the result is the
\* sequence of (separator, code) pieces that the string is made of.
RECURSIVE PrettyTail(_, _, _, _)
PrettyTail(ranked, i, prev_cpv, program) ==
    IF i > Len(ranked) THEN <<>>
    ELSE LET r == ranked[i][1]
             c == ranked[i][2]
             cpv == program[r + 1].cpv
         IN  IF cpv = prev_cpv
             THEN <<<<" =", c>>>> \o PrettyTail(ranked, i + 1, prev_cpv, program)
             ELSE <<<<"  ", c>>>> \o PrettyTail(ranked, i + 1, cpv, program)

\* pretty(codes, program) for a non-empty program
pretty(codes, program) ==
    IF codes = {} THEN <<>>
    ELSE LET ranked == SortRanked({<<get_rank(c, program), c>> : c \in codes})
         IN  <<<<"", ranked[1][2]>>>>
                 \o PrettyTail(ranked, 2, program[ranked[1][1] + 1].cpv, program)

\* " ".join(codes) for a non-empty set of codes: the codes come in the set's
\* iteration order, which is arbitrary, so the value is the set of the
\* strings the call can return, each a sequence of (separator, code) pieces.
join(codes) ==
    LET n == Cardinality(codes)
        orders == {f \in [1..n -> codes] :
                      \A i, j \in 1..n : i # j => f[i] # f[j]}
    IN  {[i \in 1..n |-> <<IF i = 1 THEN "" ELSE " ", f[i]>>] : f \in orders}

\* One step of the sort with a new course put before the courses of its CPV
InsertByCpv_BeforeEqual(sorted, c) ==
    LET k == Cardinality({i \in 1..Len(sorted) : sorted[i].cpv < c.cpv})
    IN  SubSeq(sorted, 1, k) \o <<c>> \o SubSeq(sorted, k + 1, Len(sorted))

\* One step of sorted(progression, key=lambda c: c.cpv): Python's sort is
\* stable, so a course goes after the courses of the same CPV that come
\* before it in the list
InsertByCpv(sorted, c) ==
    LET k == Cardinality({i \in 1..Len(sorted) : sorted[i].cpv <= c.cpv})
    IN  SubSeq(sorted, 1, k) \o <<c>> \o SubSeq(sorted, k + 1, Len(sorted))

\* sorted(progression, key=lambda c: c.cpv)
RECURSIVE SortedByCpv(_)
SortedByCpv(progression) ==
    IF progression = <<>> THEN <<>>
    ELSE InsertByCpv(SortedByCpv(SubSeq(progression, 1, Len(progression) - 1)),
                     progression[Len(progression)])

\* sum([programs[m] for m in majors_minors], [])
RECURSIVE SumLists(_, _)
SumLists(programs, majors_minors) ==
    IF majors_minors = <<>> THEN <<>>
    ELSE SumLists(programs, SubSeq(majors_minors, 1, Len(majors_minors) - 1))
             \o programs[majors_minors[Len(majors_minors)]]

whole_program(programs, majors_minors) ==
    SortedByCpv(SumLists(programs, majors_minors))

\* The non-elective codes of a program (req_codes in is_allowed)
req_codes(program) ==
    {program[i].code : i \in {j \in 1..Len(program) : ~is_elective(program[j])}}

\* is_allowed with the semester of offer compared to the study period itself
is_allowed_SemesterOfOffer(course, done, semester, program) ==
    LET correct_semester == (course.cpv \div 1000) = semester
        num_todo == Cardinality(req_codes(program) \ done)
        space == IF is_elective(course) /\ program # <<>>
                 THEN Cardinality(done) + num_todo < COURSES_NEEDED
                 ELSE TRUE
    IN  course.code \notin done /\ correct_semester /\ space

\* is_allowed without the test of the semester
is_allowed_AnySemester(course, done, semester, program) ==
    LET num_todo == Cardinality(req_codes(program) \ done)
        space == IF is_elective(course) /\ program # <<>>
                 THEN Cardinality(done) + num_todo < COURSES_NEEDED
                 ELSE TRUE
    IN  course.code \notin done /\ space

\* is_allowed without the test of the space left
is_allowed_NoBudget(course, done, semester, program) ==
    LET correct_semester == ((course.cpv \div 1000) % 2) = (semester % 2)
    IN  course.code \notin done /\ correct_semester

\* is_allowed with <= for < in the test of the space left
is_allowed_OffByOne(course, done, semester, program) ==
    LET correct_semester == ((course.cpv \div 1000) % 2) = (semester % 2)
        num_todo == Cardinality(req_codes(program) \ done)
        space == IF is_elective(course) /\ program # <<>>
                 THEN Cardinality(done) + num_todo <= COURSES_NEEDED
                 ELSE TRUE
    IN  course.code \notin done /\ correct_semester /\ space

is_allowed(course, done, semester, program) ==
    LET correct_semester == ((course.cpv \div 1000) % 2) = (semester % 2)
        num_todo == Cardinality(req_codes(program) \ done)
        space == IF is_elective(course) /\ program # <<>>
                 THEN Cardinality(done) + num_todo < COURSES_NEEDED
                 ELSE TRUE
    IN  course.code \notin done /\ correct_semester /\ space

\* remove_done: the courses not satisfied by done, in order
remove_done(progression, done) ==
    SelectSeq(progression, LAMBDA c : ~is_done(c, done))

\* [c for c in progression if c not in todo]
NotInTodo(progression, todo) ==
    SelectSeq(progression, LAMBDA c : ~InTodo(c, todo))

\* The sort key of allocate_elective: c[3:]
AllocKey(code) == SliceFrom(code, 3)

\* allocate_elective with the level test of line 583 in force:
\* if level(code) >= level(elective.code)
allocate_elective_AtLeastLevel(elective, done) ==
    LET ok == {c \in done : level(c) >= level(elective.code)}
    IN  IF ok = {} THEN {None}
        ELSE {c \in ok : \A d \in ok : StrLeq(AllocKey(c), AllocKey(d))}

\* allocate_elective: the first code of sorted(list(done), key=c[3:]).  The
\* sort is stable and list(done) is in the set's iteration order, so among
\* codes with the same least key any one can come first: the value is the set
\* of codes the call can return ({None} when done is empty).
allocate_elective(elective, done) ==
    IF done = {} THEN {None}
    ELSE {c \in done : \A d \in done : StrLeq(AllocKey(c), AllocKey(d))}

\* finished without the count of courses done
finished_OnlyElectivesLeft(progression, done) ==
    \A i \in 1..Len(progression) : is_elective(progression[i])

finished(progression, done) ==
    /\ Cardinality(done) >= COURSES_NEEDED
    /\ \A i \in 1..Len(progression) : is_elective(progression[i])

\* ------------------------------------------------------------------------
\* Course codes and prerequisites
\* ------------------------------------------------------------------------
Digits3(n) ==
    <<DigitChar[(n \div 100) + 1], DigitChar[((n \div 10) % 10) + 1],
      DigitChar[(n % 10) + 1]>>

ICT(n) == <<"I", "C", "T">> \o Digits3(n)
BUS(n) == <<"B", "U", "S">> \o Digits3(n)
DES(n) == <<"D", "E", "S">> \o Digits3(n)
COR(n) == <<"C", "O", "R">> \o Digits3(n)
CSC(n) == <<"C", "S", "C">> \o Digits3(n)
ABC(n) == <<"A", "B", "C">> \o Digits3(n)
XYZ(n) == <<"X", "Y", "Z">> \o Digits3(n)
Elective(n) == ELECTIVE_PREFIX \o Digits3(n)

\* simple 'AND' pre-reqs
and_prereqs(code) ==
    CASE code = ICT(221) -> <<ICT(112)>>
      [] code = ICT(220) -> <<ICT(120)>>
      [] code = ICT(311) -> <<ICT(221)>>
      [] code = ICT(320) -> <<ICT(211), ICT(112)>>
      [] code = DES(222) -> <<DES(221)>>
      [] code = CSC(301) -> <<ICT(311), DES(222)>>
      [] code = ICT(310) -> <<ICT(112), ICT(115)>>
      [] code = ICT(342) -> <<ICT(311)>>
      [] code = ICT(352) -> <<BUS(104)>>
      [] code = ICT(351) -> <<ICT(221)>>
      [] OTHER -> <<>>

\* and_prereqs.get(course.code, []) as a set of codes
PrereqsOf(course) ==
    LET pre == and_prereqs(course.code) IN {pre[i] : i \in 1..Len(pre)}

prereqs_met(course, done) == \A p \in PrereqsOf(course) : p \in done

\* ------------------------------------------------------------------------
\* PreReq
\* ------------------------------------------------------------------------
\* An entry of checks that is a course code (isinstance(chk, str))
Str(code) == [tag |-> "str", code |-> code]

\* An entry of checks that is neither a str nor a PreReq.  radd says whether
\* the value can be added to a str ("..." + chk): an int, None, a float, a
\* tuple, a list or a bytes value cannot, an object with __radd__ can.
Unknown(radd) == [tag |-> "other", radd |-> radd]

\* PreReq.__init__ with num stored as given
PreReq_NumAsGiven(checks, num) ==
    [tag |-> "PreReq", checks |-> checks, num_required |-> num]

\* PreReq.__init__
PreReq(checks, num) ==
    [tag |-> "PreReq", checks |-> checks,
     num_required |-> IF num > 0 THEN num ELSE Len(checks)]

\* The end of a call of is_satisfied: a return of value, or a TypeError
\* (raised), after warnings lines were printed
Returned(value, warnings) ==
    [raised |-> FALSE, value |-> value, warnings |-> warnings]

Raised(warnings) == [raised |-> TRUE, value |-> FALSE, warnings |-> warnings]

\* PreReq.is_satisfied, and its for loop from the i-th entry of checks on with
\* num entries counted and w warnings printed so far
RECURSIVE is_satisfied(_, _), IsSatisfiedFrom(_, _, _, _, _)
IsSatisfiedFrom(self, done, i, num, w) ==
    IF i > Len(self.checks) THEN Returned(num >= self.num_required, w)
    ELSE LET chk == self.checks[i]
         IN  CASE chk.tag = "str" ->
                    IsSatisfiedFrom(self, done, i + 1,
                        IF chk.code \in done THEN num + 1 ELSE num, w)
               [] chk.tag = "PreReq" ->
                    LET r == is_satisfied(chk, done)
                    IN  IF r.raised THEN Raised(w + r.warnings)
                        ELSE IsSatisfiedFrom(self, done, i + 1,
                                 IF r.value THEN num + 1 ELSE num,
                                 w + r.warnings)
               [] OTHER ->
                    \* print("WARNING: unknown prereq ignored: " + chk)
                    IF chk.radd
                    THEN IsSatisfiedFrom(self, done, i + 1, num, w + 1)
                    ELSE Raised(w)

is_satisfied(self, done) == IsSatisfiedFrom(self, done, 1, 0, 0)

\* ------------------------------------------------------------------------
\* Inputs: programs and students
\* ------------------------------------------------------------------------
\* How many entries of the handbook a program may vary from the default.
MaxVariation == 2

\* How many full semesters (of LOAD courses each) a student may have passed.
MaxSemPassed == 3

\* How many completed courses from outside the handbook a student may hold.
MaxExtra == 2

\* A CPV-sorted three-year program in the layout of the BICT examples: four
\* required courses and one elective slot per study period, each elective
\* code in an odd and an even period, and one elective slot whose code has
\* no level digit.
Handbook ==
    << Course(ICT(110), 1101), Course(ICT(112), 1130), Course(ICT(115), 1130),
       Course(COR(109), 1140), Course(Elective(101), 1172),
       Course(ICT(120), 2101), Course(BUS(104), 2130), Course(BUS(106), 2131),
       Course(BUS(101), 2140), Course(ELECTIVE_PREFIX, 2171),
       Course(Elective(101), 2172),
       Course(ICT(221), 3230), Course(ICT(211), 3231), Course(DES(221), 3232),
       Course(BUS(203), 3240), Course(Elective(201), 3272),
       Course(ICT(220), 4230), Course(DES(222), 4231), Course(DES(105), 4232),
       Course(BUS(211), 4240), Course(Elective(201), 4272),
       Course(ICT(311), 5330), Course(ICT(320), 5331), Course(ICT(310), 5332),
       Course(ICT(351), 5340), Course(Elective(301), 5372),
       Course(CSC(301), 6330), Course(ICT(342), 6331), Course(ICT(352), 6332),
       Course(ICT(321), 6340), Course(Elective(301), 6372) >>

\* Codes a program leaves out unless it varies, and codes it may leave out.
Addable == {ELECTIVE_PREFIX}
Droppable == {ICT(112), COR(109), BUS(106), BUS(211)}

Without(program, codes) ==
    SelectSeq(program, LAMBDA c : c.code \notin codes)

\* The first year of the handbook on its own: a program shorter than
\* COURSES_NEEDED, eight required courses and the first-year elective slots.
FirstYear ==
    SelectSeq(Without(Handbook, Addable), LAMBDA c : c.cpv \div 1000 <= 2)

\* The progressions planned: the handbook varied in at most MaxVariation
\* entries, its first year, and the empty progression.
Programs ==
    { Without(Handbook, (Addable \ v) \cup (Droppable \cap v)) :
        v \in {w \in SUBSET (Addable \cup Droppable) :
                  Cardinality(w) <= MaxVariation} }
    \cup {FirstYear, <<>>}

\* The required codes of the handbook in study order.
StudyOrder == SelectSeq(Handbook, LAMBDA c : ~is_elective(c))

ExtraPool == {ABC(123), XYZ(123), ABC(234)}

\* The sets of passed codes: the first semesters of the study order, and some
\* courses from outside the handbook.
PassedSets ==
    { {StudyOrder[i].code : i \in 1..Min2(LOAD * n, Len(StudyOrder))} \cup x :
        n \in 0..MaxSemPassed,
        x \in {y \in SUBSET ExtraPool : Cardinality(y) <= MaxExtra} }

\* ------------------------------------------------------------------------
\* State of one call of plan_student
\* ------------------------------------------------------------------------
VARIABLES
    passed,        \* stu.passed
    program,       \* the caller's progression list (the argument)
    start,         \* the caller's starting semester (the argument)
    progression,   \* the local progression: courses not yet done or planned
    done,          \* codes counted as done
    done_extra,    \* passed codes not in the program, not yet used
    semester,      \* the local semester, 1 or 2
    timeout,       \* semesters planned so far
    todo,          \* the Course objects planned for this semester
    idx,           \* 1-based position of the for loop in progression
    output,        \* the lines written, in order
    pc,            \* the position in plan_student
    call,          \* a direct call of one of the helper functions: its arguments
    ret            \* <<>> until that call returns, then <<value>>

vars ==
    <<passed, program, start, progression, done, done_extra, semester,
      timeout, todo, idx, output, pc, call, ret>>

\* The variables of a direct call of a helper
unitVars == <<call, ret>>

\* The variables of a call of plan_student
planVars ==
    <<passed, program, start, progression, done, done_extra, semester,
      timeout, todo, idx, output, pc>>

\* One written line: its kind, a number, a set of codes (for a set written
\* with format, whose order is the set's) and a sequence of (text, code)
\* pieces.
Line(k, n, cs, ts) == [k |-> k, n |-> n, cs |-> cs, ts |-> ts]

Init ==
    /\ passed \in PassedSets
    /\ program \in Programs
    /\ start \in {1, 2}
    /\ progression = program
    /\ done = {}
    /\ done_extra = {}
    /\ semester = start
    /\ timeout = 0
    /\ todo = {}
    /\ idx = 0
    /\ output = <<>>
    /\ pc = "start"
    /\ call = [fn |-> "plan_student"]
    /\ ret = <<>>

\* The first done set with union for intersection
TickedOff_Union(stu_passed, required_codes) == stu_passed \cup required_codes

\* line 649: stu.passed.intersection(required_codes)
TickedOff(stu_passed, required_codes) == stu_passed \cap required_codes

\* step 1: tick off all required courses already done
TickOff ==
    /\ pc = "start"
    /\ LET required_codes == {progression[i].code : i \in 1..Len(progression)}
           d == TickedOff(passed, required_codes)
           x == passed \ d
       IN  /\ done' = d
           /\ done_extra' = x
           /\ progression' = remove_done(progression, d)
           /\ output' = <<Line("done", 0, d, <<>>)>>
                          \o (IF x # {} THEN <<Line("extra", 0, x, <<>>)>>
                              ELSE <<>>)
    /\ timeout' = 0
    /\ pc' = "loop"
    /\ UNCHANGED <<passed, program, start, semester, todo, idx>>
    /\ UNCHANGED unitVars

\* The while loop without its timeout: while not finished(progression, done)
LoopCondition_NoTimeout == ~finished(progression, done)

\* The while loop with or for and
LoopCondition_Or == ~finished(progression, done) \/ timeout < MAX_SEMESTERS

\* The condition of the while loop
LoopCondition == ~finished(progression, done) /\ timeout < MAX_SEMESTERS

\* while not finished(progression, done) and timeout < MAX_SEMESTERS: enter
LoopEnter ==
    /\ pc = "loop"
    /\ LoopCondition
    /\ todo' = {}
    /\ idx' = 1
    /\ pc' = "scan"
    /\ UNCHANGED <<passed, program, start, progression, done, done_extra,
                   semester, timeout, output>>
    /\ UNCHANGED unitVars

\* the while condition is false: leave the loop
LoopExit ==
    /\ pc = "loop"
    /\ ~LoopCondition
    /\ pc' = "report"
    /\ UNCHANGED <<passed, program, start, progression, done, done_extra,
                   semester, timeout, todo, idx, output>>
    /\ UNCHANGED unitVars

\* The for loop going through the progression from its last course
Cur_BackToFront == progression[Len(progression) + 1 - idx]

\* The course the for loop is at
Cur == progression[idx]

Scanning == pc = "scan" /\ idx <= Len(progression)

\* The end-of-course test without the load: if finished(left, done): break
NextCourse_NoLoad(todoN, doneN) ==
    LET left == NotInTodo(progression, todoN)
    IN  IF finished(left, doneN)
        THEN pc' = "endsem" /\ idx' = idx
        ELSE pc' = "scan" /\ idx' = idx + 1

\* lines 680-683: see if this semester is full, else go on to the next course
NextCourse(todoN, doneN) ==
    LET left == NotInTodo(progression, todoN)
    IN  IF Cardinality(todoN) = LOAD \/ finished(left, doneN)
        THEN pc' = "endsem" /\ idx' = idx
        ELSE pc' = "scan" /\ idx' = idx + 1

\* is_allowed is false: the course is passed over
ScanNotAllowed ==
    /\ Scanning
    /\ ~is_allowed(Cur, done, semester, progression)
    /\ idx' = idx + 1
    /\ UNCHANGED <<passed, program, start, progression, done, done_extra,
                   semester, timeout, todo, output, pc>>
    /\ UNCHANGED unitVars

\* stu.passed after done_extra.remove(e), had done_extra been the student's
\* own set, updated in place
PassedAfterRemove_SameSet(stu_passed, e) == stu_passed \ {e}

\* stu.passed after done_extra.remove(e) (line 668): difference() (line 650)
\* made done_extra a new set, so the removal does not reach the student's set
PassedAfterRemove(stu_passed, e) == stu_passed

\* an elective satisfied by a course they have already done
ScanSubstitute ==
    /\ Scanning
    /\ is_allowed(Cur, done, semester, progression)
    /\ is_elective(Cur)
    /\ \E e \in allocate_elective(Cur, done_extra) :
          /\ e # None
          /\ done' = done \cup {Cur.code}
          /\ done_extra' = done_extra \ {e}
          /\ passed' = PassedAfterRemove(passed, e)
          /\ output' = Append(output,
                 Line("satisfied", 0, {}, <<<<"", Cur.code>>, <<" satisfied by ", e>>>>))
    /\ NextCourse(todo, done')
    /\ UNCHANGED <<program, start, progression, semester, timeout, todo>>
    /\ UNCHANGED unitVars

\* The level test with <= for <
LevelGate_AtMost(course, doneN) == Cardinality(doneN) <= 8 * level(course.code)

\* line 670: len(done) < 8 * level(course.code)
LevelGate(course, doneN) == Cardinality(doneN) < 8 * level(course.code)

\* a fresh elective: get them to do this elective
ScanElective ==
    /\ Scanning
    /\ is_allowed(Cur, done, semester, progression)
    /\ is_elective(Cur)
    /\ None \in allocate_elective(Cur, done_extra)
    /\ level(Cur.code) # Raise
    /\ LevelGate(Cur, done)
    /\ todo' = todo \cup {Cur}
    /\ done' = done \cup {Cur.code}
    /\ NextCourse(todo', done')
    /\ UNCHANGED <<passed, program, start, progression, done_extra, semester,
                   timeout, output>>
    /\ UNCHANGED unitVars

\* an allowed elective that fails the level test: nothing is added
ScanElectiveTooLate ==
    /\ Scanning
    /\ is_allowed(Cur, done, semester, progression)
    /\ is_elective(Cur)
    /\ None \in allocate_elective(Cur, done_extra)
    /\ level(Cur.code) # Raise
    /\ ~LevelGate(Cur, done)
    /\ NextCourse(todo, done)
    /\ UNCHANGED <<passed, program, start, progression, done, done_extra,
                   semester, timeout, todo, output>>
    /\ UNCHANGED unitVars

\* level() raises on the elective's code: the call ends with the exception
ScanElectiveRaises ==
    /\ Scanning
    /\ is_allowed(Cur, done, semester, progression)
    /\ is_elective(Cur)
    /\ None \in allocate_elective(Cur, done_extra)
    /\ level(Cur.code) = Raise
    /\ pc' = "raised"
    /\ UNCHANGED <<passed, program, start, progression, done, done_extra,
                   semester, timeout, todo, idx, output>>
    /\ UNCHANGED unitVars

\* a required course whose prerequisites are met
ScanRequired ==
    /\ Scanning
    /\ is_allowed(Cur, done, semester, progression)
    /\ ~is_elective(Cur)
    /\ prereqs_met(Cur, done)
    /\ todo' = todo \cup {Cur}
    /\ done' = done \cup {Cur.code}
    /\ NextCourse(todo', done')
    /\ UNCHANGED <<passed, program, start, progression, done_extra, semester,
                   timeout, output>>
    /\ UNCHANGED unitVars

\* a required course whose prerequisites are not met
ScanPrereqsNotMet ==
    /\ Scanning
    /\ is_allowed(Cur, done, semester, progression)
    /\ ~is_elective(Cur)
    /\ ~prereqs_met(Cur, done)
    /\ output' = Append(output,
           Line("prereqs not met", 0, {}, <<<<"", Cur.code>>>>))
    /\ NextCourse(todo, done)
    /\ UNCHANGED <<passed, program, start, progression, done, done_extra,
                   semester, timeout, todo>>
    /\ UNCHANGED unitVars

\* the for loop has gone through the progression
ScanEnd ==
    /\ pc = "scan"
    /\ idx > Len(progression)
    /\ pc' = "endsem"
    /\ UNCHANGED <<passed, program, start, progression, done, done_extra,
                   semester, timeout, todo, idx, output>>
    /\ UNCHANGED unitVars

\* The move to the next semester as semester += 1
NextSemester_Increment(sem) == sem + 1

\* lines 689-692: if semester == 1: semester = 2, else: semester = 1
NextSemester(sem) == IF sem = 1 THEN 2 ELSE 1

\* lines 684-692: write the semester, drop its courses, move to next semester
EndSemester ==
    /\ pc = "endsem"
    /\ LET todo_codes == {c.code : c \in todo}
       IN  output' = Append(output,
               Line("sem", semester, {}, pretty(todo_codes, progression)))
    /\ progression' = NotInTodo(progression, todo)
    /\ timeout' = timeout + 1
    /\ semester' = NextSemester(semester)
    /\ pc' = "loop"
    /\ UNCHANGED <<passed, program, start, done, done_extra, todo, idx>>
    /\ UNCHANGED unitVars

\* lines 694-696: the wasted courses and the total
Report ==
    /\ pc = "report"
    /\ output' = output
           \o (IF done_extra # {} THEN <<Line("WASTED", 0, done_extra, <<>>)>>
               ELSE <<>>)
           \o <<Line("Total", Cardinality(done), {}, <<>>)>>
    /\ pc' = "done"
    /\ UNCHANGED <<passed, program, start, progression, done, done_extra,
                   semester, timeout, todo, idx>>
    /\ UNCHANGED unitVars

Next ==
    \/ TickOff
    \/ LoopEnter
    \/ LoopExit
    \/ ScanNotAllowed
    \/ ScanSubstitute
    \/ ScanElective
    \/ ScanElectiveTooLate
    \/ ScanElectiveRaises
    \/ ScanRequired
    \/ ScanPrereqsNotMet
    \/ ScanEnd
    \/ EndSemester
    \/ Report

Spec == Init /\ [][Next]_vars

\* ------------------------------------------------------------------------
\* Direct calls of the helper functions, with the arguments of the tests
\* that follow them in the source and their neighbours
\* ------------------------------------------------------------------------
\* How many completed codes ABC101, ABC102, ... a call of is_allowed is given.
MaxUnitDone == 5

UnitCourses ==
    { Course(code, 1000 * a + b) :
        code \in {ABC(110), Elective(201)}, a \in 1..4, b \in {0, 230} }

UnitDoneSets ==
    { {ABC(100 + i) : i \in 1..n} \cup x :
        n \in 0..MaxUnitDone,
        x \in SUBSET {ABC(110), Elective(201), ICT(110)} }

\* No program, a program of 24 required codes and one of 20
UnitPrograms ==
    { <<>>, Without(Handbook, Addable), Without(Handbook, Addable \cup Droppable) }

IsAllowedCalls ==
    [fn : {"is_allowed"}, course : UnitCourses, done : UnitDoneSets,
     semester : {1, 2}, program : UnitPrograms]

UnitElectives == {Course(Elective(n), 2341) : n \in {101, 200, 301}}

UnitExtraPool == {ABC(123), ABC(234), ABC(323), ABC(333), XYZ(123)}

AllocateElectiveCalls ==
    [fn : {"allocate_elective"}, elective : UnitElectives,
     done : SUBSET UnitExtraPool]

\* The largest num given to PreReq (3 is the 'at least three of' rule).
MaxNum == 3

\* The seven codes of the 'at least three of' rule of test_prereqs
UnitPrereqPool ==
    {ICT(301), ICT(310), ICT(311), ICT(320), ICT(321), ICT(351), ICT(352)}

\* The lists of checks: none, one code, all-of and one-of lists, the seven
\* codes, a code given twice, nested rules, and lists with an entry that is
\* neither a str nor a PreReq
UnitChecks ==
    LET s(n) == Str(ICT(n))
        b == <<s(310), s(311)>>
        c == <<s(320), s(321)>>
    IN  { <<>>,
          <<s(301)>>,
          b,
          c,
          <<s(301), s(310), s(311), s(320), s(321), s(351), s(352)>>,
          <<s(301), s(301), s(310)>>,
          <<s(301), PreReq(b, 1)>>,
          <<PreReq(b, 0), PreReq(c, 1), s(351)>>,
          <<s(301), Unknown(FALSE)>>,
          <<Unknown(TRUE), s(301), s(310)>>,
          <<s(301), PreReq(<<s(310), Unknown(TRUE)>>, 1), Unknown(TRUE)>>,
          <<s(301), PreReq(<<Unknown(FALSE)>>, 1)>> }

IsSatisfiedCalls ==
    [fn : {"is_satisfied"}, checks : UnitChecks, num : 0..MaxNum,
     done : SUBSET UnitPrereqPool]

\* How many codes a call of pretty is given at most.
MaxCodes == 4

\* A program in the layout of the tests of pretty, with three courses of one
\* CPV and an elective slot given twice
TiedProgram ==
    << Course(COR(109), 1101), Course(ICT(112), 1130), Course(ICT(115), 1130),
       Course(ICT(110), 1130), Course(Elective(101), 1172),
       Course(ICT(120), 2101), Course(Elective(101), 2172) >>

UnitPrettyPool ==
    {COR(109), ICT(110), ICT(112), ICT(115), ICT(120), Elective(101),
     ABC(100), ABC(323)}

PrettyCalls ==
    [fn : {"pretty"},
     codes : {c \in SUBSET UnitPrettyPool : Cardinality(c) <= MaxCodes},
     program : {<<>>, TiedProgram, FirstYear}]

\* How many names a call of whole_program is given at most.
MaxNames == 2

\* Named course lists as read from a program sheet: a degree, a major and a
\* minor, in sheet order, with courses of one CPV, a course in two lists and
\* an elective slot in each list
UnitNamedLists ==
    [ BICT |-> << Course(ICT(110), 1101), Course(ICT(115), 1130),
                  Course(ICT(112), 1130), Course(Elective(101), 1172),
                  Course(ICT(120), 2101) >>,
      Major |-> << Course(BUS(104), 2130), Course(ICT(115), 1130),
                   Course(BUS(101), 1130), Course(Elective(101), 2172) >>,
      Minor |-> << Course(DES(105), 1130), Course(COR(109), 1101),
                   Course(Elective(101), 1172) >> ]

WholeProgramCalls ==
    [fn : {"whole_program"}, programs : {UnitNamedLists},
     majors_minors : UNION {[1..n -> DOMAIN UnitNamedLists] : n \in 0..MaxNames}]

InitUnit ==
    /\ call \in IsAllowedCalls \cup AllocateElectiveCalls \cup IsSatisfiedCalls
                  \cup PrettyCalls \cup WholeProgramCalls
    /\ ret = <<>>
    /\ passed = {}
    /\ program = <<>>
    /\ start = 1
    /\ progression = <<>>
    /\ done = {}
    /\ done_extra = {}
    /\ semester = 1
    /\ timeout = 0
    /\ todo = {}
    /\ idx = 0
    /\ output = <<>>
    /\ pc = "call"

CallIsAllowed ==
    /\ pc = "call"
    /\ call.fn = "is_allowed"
    /\ ret = <<>>
    /\ ret' = <<is_allowed(call.course, call.done, call.semester, call.program)>>
    /\ UNCHANGED call
    /\ UNCHANGED planVars

CallAllocateElective ==
    /\ pc = "call"
    /\ call.fn = "allocate_elective"
    /\ ret = <<>>
    /\ \E e \in allocate_elective(call.elective, call.done) : ret' = <<e>>
    /\ UNCHANGED call
    /\ UNCHANGED planVars

\* PreReq(checks, num).is_satisfied(done): the value is returned after the
\* warnings are printed
CallIsSatisfied ==
    /\ pc = "call"
    /\ call.fn = "is_satisfied"
    /\ ret = <<>>
    /\ LET r == is_satisfied(PreReq(call.checks, call.num), call.done)
       IN  /\ ~r.raised
           /\ ret' = <<r.value>>
           /\ output' = [j \in 1..r.warnings |-> Line("WARNING", 0, {}, <<>>)]
    /\ UNCHANGED <<call, pc>>
    /\ UNCHANGED <<passed, program, start, progression, done, done_extra,
                   semester, timeout, todo, idx>>

\* PreReq(checks, num).is_satisfied(done) ends with a TypeError
CallIsSatisfiedRaises ==
    /\ pc = "call"
    /\ call.fn = "is_satisfied"
    /\ ret = <<>>
    /\ LET r == is_satisfied(PreReq(call.checks, call.num), call.done)
       IN  /\ r.raised
           /\ pc' = "raised"
           /\ output' = [j \in 1..r.warnings |-> Line("WARNING", 0, {}, <<>>)]
    /\ UNCHANGED <<call, ret>>
    /\ UNCHANGED <<passed, program, start, progression, done, done_extra,
                   semester, timeout, todo, idx>>

\* pretty(codes, program): the empty string, the ranked codes, or the join
CallPretty ==
    /\ pc = "call"
    /\ call.fn = "pretty"
    /\ ret = <<>>
    /\ \E r \in (IF call.codes # {} /\ call.program = <<>>
                 THEN join(call.codes)
                 ELSE {pretty(call.codes, call.program)}) : ret' = <<r>>
    /\ UNCHANGED call
    /\ UNCHANGED planVars

CallWholeProgram ==
    /\ pc = "call"
    /\ call.fn = "whole_program"
    /\ ret = <<>>
    /\ ret' = <<whole_program(call.programs, call.majors_minors)>>
    /\ UNCHANGED call
    /\ UNCHANGED planVars

NextUnit ==
    \/ CallIsAllowed
    \/ CallAllocateElective
    \/ CallIsSatisfied
    \/ CallIsSatisfiedRaises
    \/ CallPretty
    \/ CallWholeProgram

SpecUnit == InitUnit /\ [][NextUnit]_vars

\* ------------------------------------------------------------------------
\* What a run has written, read back from output
\* ------------------------------------------------------------------------
LinesOf(k) == SelectSeq(output, LAMBDA l : l.k = k)

\* The 'sem' lines written so far
SemLines == LinesOf("sem")

\* The codes on a written line
CodesOn(line) == {line.ts[j][2] : j \in 1..Len(line.ts)}

\* A semester is being filled: its todo is not yet written
InSemester == pc \in {"scan", "endsem", "raised"}

\* Plan[i]: the codes placed in the i-th semester of the plan, the semester
\* being filled included
Plan ==
    [i \in 1..Len(SemLines) |-> CodesOn(SemLines[i])]
        \o (IF InSemester THEN <<{c.code : c \in todo}>> ELSE <<>>)

\* All codes placed in some semester so far
Scheduled == UNION {Plan[i] : i \in 1..Len(Plan)}

\* The elective codes discharged by a completed course so far
Substituted == {LinesOf("satisfied")[j].ts[1][2] : j \in 1..Len(LinesOf("satisfied"))}

\* The run has ended with its last line, the total
Reported == pc = "done" /\ output[Len(output)].k = "Total"

\* ------------------------------------------------------------------------
\* C1. plan_student halts within MAX_SEMESTERS semester iterations: the
\* iteration counter and the number of 'sem' lines never exceed 10, the Total
\* line comes only after the last of them, and every step of the run strictly
\* decreases a natural number (the semesters and courses still to go
\* through), so no run goes on forever.
\* ------------------------------------------------------------------------
StepsPerSemester == Len(program) + 4

Variant ==
    CASE pc = "start"  -> (MAX_SEMESTERS + 1) * StepsPerSemester
      [] pc = "loop"   -> (MAX_SEMESTERS - timeout) * StepsPerSemester + 2
      [] pc = "scan"   -> (MAX_SEMESTERS - timeout - 1) * StepsPerSemester + 4
                            + (Len(progression) + 1 - idx)
      [] pc = "endsem" -> (MAX_SEMESTERS - timeout - 1) * StepsPerSemester + 3
      [] pc = "report" -> 1
      [] OTHER         -> 0

C1_BoundedSemesters ==
    /\ timeout <= MAX_SEMESTERS
    /\ Len(SemLines) <= MAX_SEMESTERS
    /\ Len(SemLines) = timeout
    /\ Variant >= 0
    /\ \A i \in 1..Len(output) :
          output[i].k = "Total" => pc = "done" /\ i = Len(output)
    /\ pc = "done" => Reported

\* C1: the bounds hold in every state and every step lowers the variant.
C1_HaltsWithinMaxSemesters ==
    [](C1_BoundedSemesters) /\ [][Variant' < Variant]_vars

\* A run that used all MAX_SEMESTERS iterations and wrote the total
C1_Witness == Reported /\ timeout = MAX_SEMESTERS /\ Len(SemLines) = MAX_SEMESTERS

\* ------------------------------------------------------------------------
\* C2. The set todo of a semester never holds more than LOAD courses, and an
\* elective discharged by a completed course is not in it.
\* ------------------------------------------------------------------------
TodoCodes == {c.code : c \in todo}

\* The electives discharged since the last 'sem' line
RECURSIVE SubstitutedSince(_)
SubstitutedSince(i) ==
    IF i = 0 \/ output[i].k = "sem" THEN {}
    ELSE (IF output[i].k = "satisfied" THEN {output[i].ts[1][2]} ELSE {})
            \cup SubstitutedSince(i - 1)

\* C2: at most LOAD courses in todo, none of them a substituted elective.
C2_LoadCap ==
    /\ Cardinality(todo) <= LOAD
    /\ Cardinality(TodoCodes) = Cardinality(todo)
    /\ InSemester => TodoCodes \cap Substituted = {}

\* A full semester in which an elective was also discharged by substitution
C2_Witness ==
    /\ pc = "endsem"
    /\ Cardinality(todo) = LOAD
    /\ SubstitutedSince(Len(output)) # {}

\* ------------------------------------------------------------------------
\* C3. Whenever a non-elective course is placed in a semester, each of its
\* prerequisites in and_prereqs was passed by the student beforehand or is
\* placed in a strictly earlier semester of the plan.
\* ------------------------------------------------------------------------
IsElectiveCode(code) == startswith(code, ELECTIVE_PREFIX)

PrereqCodes(code) == {and_prereqs(code)[i] : i \in 1..Len(and_prereqs(code))}

\* C3: each prerequisite of a placed course was passed or placed strictly earlier.
C3_PrereqsStrictlyEarlier ==
    \A i \in 1..Len(Plan) : \A code \in Plan[i] :
        ~IsElectiveCode(code) =>
            \A p \in PrereqCodes(code) :
                p \in passed \/ \E j \in 1..(i - 1) : p \in Plan[j]

\* ------------------------------------------------------------------------
\* C4. done only grows and a code is never placed once it is in done: no code
\* is placed in two semesters, no passed code is placed, and once a semester
\* is written no course with one of its codes remains in the progression,
\* also when the program holds the code several times with different CPVs.
\* ------------------------------------------------------------------------
Written == UNION {CodesOn(SemLines[i]) : i \in 1..Len(SemLines)}

C4_NoCodeTwice ==
    LET plan == Plan
        written == Written
        scheduled == UNION {plan[i] : i \in 1..Len(plan)}
    IN  /\ \A i \in 1..Len(plan) : \A j \in (i + 1)..Len(plan) :
              plan[i] \cap plan[j] = {}
        /\ scheduled \cap passed = {}
        /\ scheduled \subseteq done
        /\ pc # "endsem" =>
              \A k \in 1..Len(progression) : progression[k].code \notin written
        /\ pc \in {"loop", "report", "done"} =>
              \A k \in 1..Len(progression) : progression[k].code \notin scheduled

\* C4: the semesters never share a code, done only grows, and a code that is
\* added to todo was not in done.
C4_OnceDoneNeverPlaced ==
    /\ [](C4_NoCodeTwice)
    /\ [][/\ done \subseteq done'
          /\ (TodoCodes' \ TodoCodes) \cap done = {}]_vars

Occurrences(code) == Cardinality({k \in 1..Len(program) : program[k].code = code})

\* A code that the program holds twice has been placed and its semester written
C4_Witness ==
    /\ pc = "loop"
    /\ \E code \in Written : Occurrences(code) >= 2

\* ------------------------------------------------------------------------
\* C5. In every state of plan_student, done is a subset of the codes the
\* student passed united with the codes placed in some semester so far.
\* ------------------------------------------------------------------------
C5_DoneSubsetPassedOrScheduled == done \subseteq passed \cup Scheduled

\* C5 as amended: done is a subset of the codes the student passed, the codes
\* placed in some semester so far, and the elective codes discharged by a
\* completed course so far.
C5_DoneSubsetWithSubstituted ==
    done \subseteq passed \cup Scheduled \cup Substituted

\* An elective discharged by substitution, in done without being placed,
\* beside a placed course
C5_Witness ==
    /\ \E e \in Substituted : e \in done /\ e \notin passed \cup Scheduled
    /\ Scheduled # {}

\* ------------------------------------------------------------------------
\* C6. is_allowed is false when the course's code is in done, false when
\* floor(cpv) mod 2 differs from semester mod 2, and with no program true in
\* all other cases: CPV 1.x and 3.x are allowed in semester 1 only, CPV 2.x
\* and 4.x in semester 2 only.
\* ------------------------------------------------------------------------
IsAllowedReturned == call.fn = "is_allowed" /\ Len(ret) = 1

StudyPeriod(course) == course.cpv \div 1000

\* C6: the value returned by is_allowed, by done, parity and study period.
C6_IsAllowedDoneAndParity ==
    IsAllowedReturned =>
        LET c == call.course
            v == ret[1]
        IN  /\ c.code \in call.done => v = FALSE
            /\ StudyPeriod(c) % 2 # call.semester % 2 => v = FALSE
            /\ (call.program = <<>> /\ c.code \notin call.done) =>
                  /\ StudyPeriod(c) % 2 = call.semester % 2 => v = TRUE
                  /\ StudyPeriod(c) \in {1, 3} => (v = TRUE <=> call.semester = 1)
                  /\ StudyPeriod(c) \in {2, 4} => (v = TRUE <=> call.semester = 2)

\* A course of CPV 3.x, not yet done, allowed in semester 1 with no program
C6_Witness ==
    /\ IsAllowedReturned
    /\ ret[1] = TRUE
    /\ call.program = <<>>
    /\ StudyPeriod(call.course) = 3
    /\ call.semester = 1
    /\ call.done # {}

\* ------------------------------------------------------------------------
\* C7. With a non-empty progression, an elective is allowed only if
\* |done| + |non-elective codes of the progression not in done| is less than
\* COURSES_NEEDED; for a non-elective course the progression given makes no
\* difference to the result.
\* ------------------------------------------------------------------------
NonElectiveCodes(prog) ==
    {prog[i].code : i \in {j \in 1..Len(prog) : ~IsElectiveCode(prog[j].code)}}

CoursesInSight(d, prog) ==
    Cardinality(d) + Cardinality(NonElectiveCodes(prog) \ d)

\* C7: an allowed elective had room left; a required course ignores the program.
C7_ElectiveBudget ==
    IsAllowedReturned =>
        LET c == call.course
            v == ret[1]
        IN  /\ (call.program # <<>> /\ IsElectiveCode(c.code) /\ v = TRUE) =>
                  CoursesInSight(call.done, call.program) < COURSES_NEEDED
            /\ ~IsElectiveCode(c.code) =>
                  \A q \in UnitPrograms :
                      v = is_allowed(c, call.done, call.semester, q)

\* An elective allowed with exactly one course of room left
C7_Witness ==
    /\ IsAllowedReturned
    /\ ret[1] = TRUE
    /\ call.program # <<>>
    /\ IsElectiveCode(call.course.code)
    /\ CoursesInSight(call.done, call.program) = COURSES_NEEDED - 1

\* ------------------------------------------------------------------------
\* C8. allocate_elective returns None for an empty set, and otherwise a member
\* of the set whose code after the first three characters is least among all
\* members, whatever the level of the elective.
\* ------------------------------------------------------------------------
AllocateReturned == call.fn = "allocate_elective" /\ Len(ret) = 1

CodeSuffix(code) == SubSeq(code, 4, Len(code))

\* C8: None for the empty set, else a member with the least suffix, for every
\* elective.
C8_LowestSuffixWins ==
    AllocateReturned =>
        LET r == ret[1]
        IN  /\ call.done = {} => r = None
            /\ call.done # {} =>
                  /\ r \in call.done
                  /\ \A d \in call.done : ~StrLess(CodeSuffix(d), CodeSuffix(r))
            /\ \A e \in UnitElectives : r \in allocate_elective(e, call.done)

\* A level-3 elective given a level-1 code, out of several completed codes
C8_Witness ==
    /\ AllocateReturned
    /\ Cardinality(call.done) >= 2
    /\ ret[1] \in call.done
    /\ level(call.elective.code) = 3
    /\ level(ret[1]) = 1

\* ------------------------------------------------------------------------
\* C9. Two runs of plan_student on the same student, progression and starting
\* semester write the same output.  Runs that have reached the same state
\* differ from there only if a step has more than one outcome, so: whenever a
\* step writes a 'satisfied by' line, that line is the one line any run could
\* write in that state, also when completed extra courses tie on the key of
\* allocate_elective.
\* ------------------------------------------------------------------------
SatisfiedLine(e) ==
    Line("satisfied", 0, {}, <<<<"", Cur.code>>, <<" satisfied by ", e>>>>)

\* C9: the 'satisfied by' line a step writes is the only one it could write.
C9_SameOutputEveryRun ==
    [][(/\ Scanning
        /\ Len(output') = Len(output) + 1
        /\ output'[Len(output')].k = "satisfied")
       => \A e \in allocate_elective(Cur, done_extra) :
              output'[Len(output')] = SatisfiedLine(e)]_vars

\* ------------------------------------------------------------------------
\* C10. When the loop is left before the timeout, finished holds: at least
\* COURSES_NEEDED codes are in done and every course left in the progression
\* is elective, so every non-elective code of the program is in done.
\* ------------------------------------------------------------------------
LoopLeft == pc \in {"report", "done"}

\* C10: leaving the loop before the timeout means finished.
C10_EarlyExitMeansFinished ==
    (LoopLeft /\ timeout < MAX_SEMESTERS) =>
        /\ Cardinality(done) >= COURSES_NEEDED
        /\ \A k \in 1..Len(progression) : IsElectiveCode(progression[k].code)
        /\ NonElectiveCodes(program) \subseteq done

\* A run that planned some semesters, fewer than MAX_SEMESTERS, and ended with
\* elective slots left over
C10_Witness ==
    /\ pc = "done"
    /\ timeout > 0
    /\ timeout < MAX_SEMESTERS
    /\ Scheduled # {}
    /\ progression # <<>>

\* ------------------------------------------------------------------------
\* C11. Once every required course of the program is in done and only
\* electives are left in the progression, no further semester is begun.
\* ------------------------------------------------------------------------
\* The while loop is about to test its condition
AtLoopHead == pc = "loop"

\* Every required code of the program is in done and the courses left in the
\* progression, at least one, are all electives
OnlyElectivesRemain ==
    /\ progression # <<>>
    /\ \A k \in 1..Len(progression) : IsElectiveCode(progression[k].code)
    /\ \A k \in 1..Len(program) :
          IsElectiveCode(program[k].code) \/ program[k].code \in done

\* C11: with only electives left, the loop does not begin another semester.
C11_NoSemesterOnceOnlyElectives ==
    [][(AtLoopHead /\ OnlyElectivesRemain) => pc' # "scan"]_vars

\* C11 as amended: with only electives left and at least COURSES_NEEDED codes
\* in done, the loop is left for the report and no semester is begun.
C11_NoSemesterOnceFinished ==
    [][(AtLoopHead /\ OnlyElectivesRemain
            /\ Cardinality(done) >= COURSES_NEEDED)
        => (pc' = "report" /\ output' = output /\ timeout' = timeout)]_vars

\* The loop was left before the timeout, after some semesters, with only
\* electives left and COURSES_NEEDED codes in done
C11_Witness ==
    /\ pc = "report"
    /\ timeout > 0
    /\ timeout < MAX_SEMESTERS
    /\ OnlyElectivesRemain
    /\ Cardinality(done) >= COURSES_NEEDED

\* ------------------------------------------------------------------------
\* C12. PreReq(checks, num).is_satisfied(done) is true iff the number of
\* satisfied children (a code that is in done, a nested rule that is itself
\* satisfied) is at least the threshold: num when num > 0, the number of
\* children when num is 0.
\* ------------------------------------------------------------------------
IsSatisfiedCalled == call.fn = "is_satisfied"

IsSatisfiedReturned == IsSatisfiedCalled /\ Len(ret) = 1

\* Every child of the rule called is a code or a rule
CodesAndRulesOnly ==
    \A i \in 1..Len(call.checks) : call.checks[i].tag \in {"str", "PreReq"}

\* The children of the rule called that are satisfied, by position
SatisfiedChildren ==
    {i \in 1..Len(call.checks) :
        \/ /\ call.checks[i].tag = "str"
           /\ call.checks[i].code \in call.done
        \/ /\ call.checks[i].tag = "PreReq"
           /\ is_satisfied(call.checks[i], call.done).value}

\* The threshold the claim gives for the rule called
Threshold == IF call.num > 0 THEN call.num ELSE Len(call.checks)

\* C12: the value returned is (satisfied children >= threshold).
C12_AtLeastThreshold ==
    (IsSatisfiedReturned /\ CodesAndRulesOnly) =>
        (ret[1] <=> Cardinality(SatisfiedChildren) >= Threshold)

\* The 'at least three of' rule of seven codes returned true with exactly
\* three of them done
C12_Witness ==
    /\ IsSatisfiedReturned
    /\ CodesAndRulesOnly
    /\ Len(call.checks) = 7
    /\ call.num = 3
    /\ Cardinality(SatisfiedChildren) = 3
    /\ ret[1]

\* ------------------------------------------------------------------------
\* C13. With a child that is neither a code nor a rule, is_satisfied does
\* not fail: the child counts as unsatisfied, a warning is printed for it,
\* the other children are counted and a boolean is returned.
\* ------------------------------------------------------------------------
\* The children of the rule called that are neither a code nor a rule
UnknownChildren ==
    {i \in 1..Len(call.checks) : call.checks[i].tag = "other"}

\* C13: a call with such a child does not raise, and what it returns is
\* (satisfied children >= threshold) with a warning printed for each.
C13_UnknownChildIgnored ==
    (IsSatisfiedCalled /\ UnknownChildren # {}) =>
        /\ pc # "raised"
        /\ Len(ret) = 1 =>
              /\ ret[1] <=> Cardinality(SatisfiedChildren) >= Threshold
              /\ Len(output) >= Cardinality(UnknownChildren)

\* ------------------------------------------------------------------------
\* C14. plan_student has no fatal abort: whatever the codes of the
\* progression, the completed codes and the starting semester, the call runs
\* to its end and its last line is the total.
\* ------------------------------------------------------------------------
PlanStudentCalled == call.fn = "plan_student"

\* C14: a call of plan_student never ends with an exception, and when it has
\* ended its last line is the total.
C14_NoFatalAbort ==
    PlanStudentCalled =>
        /\ pc # "raised"
        /\ pc = "done" => output[Len(output)].k = "Total"

\* ------------------------------------------------------------------------
\* C15. pretty(codes, progression) with a non-empty progression is the empty
\* string for no codes, and otherwise the codes in the order of their first
\* occurrence in the progression, the first with nothing before it, each
\* later one after ' =' when the CPV of its first occurrence equals that of
\* the code written before it, and after two spaces otherwise.
\* ------------------------------------------------------------------------
PrettyReturned == call.fn = "pretty" /\ Len(ret) = 1

\* The codes that occur in the program of the call
ProgramCodes == {call.program[k].code : k \in 1..Len(call.program)}

\* The position of the first occurrence of a code in the program of the call
FirstOccurrence(code) ==
    CHOOSE k \in 1..Len(call.program) :
        /\ call.program[k].code = code
        /\ \A j \in 1..(k - 1) : call.program[j].code # code

FirstCpv(code) == call.program[FirstOccurrence(code)].cpv

\* C15: the pieces returned, for codes that occur in the program.
C15_RankedWithTieMarks ==
    (PrettyReturned /\ call.program # <<>> /\ call.codes \subseteq ProgramCodes) =>
        LET out == ret[1]
        IN  /\ Len(out) = Cardinality(call.codes)
            /\ {out[i][2] : i \in 1..Len(out)} = call.codes
            /\ \A i \in 1..Len(out) :
                  IF i = 1 THEN out[i][1] = ""
                  ELSE /\ FirstOccurrence(out[i - 1][2]) < FirstOccurrence(out[i][2])
                       /\ out[i][1] = IF FirstCpv(out[i][2]) = FirstCpv(out[i - 1][2])
                                      THEN " =" ELSE "  "

\* A call that returned three codes of one CPV, tie-marked, after a code of
\* another CPV, and the elective slot by its first occurrence
C15_Witness ==
    /\ PrettyReturned
    /\ call.program = TiedProgram
    /\ call.codes = {COR(109), ICT(110), ICT(115), Elective(101)}
    /\ ret[1] = << <<"", COR(109)>>, <<"  ", ICT(115)>>, <<" =", ICT(110)>>,
                   <<"  ", Elective(101)>> >>

\* ------------------------------------------------------------------------
\* C16. pretty(codes) with no progression is the codes in ascending
\* alphabetical order with one space between them, for every set of codes.
\* ------------------------------------------------------------------------
\* C16: the pieces returned without a program are in ascending order of code,
\* one space apart.
C16_AlphabeticalJoin ==
    (PrettyReturned /\ call.program = <<>>) =>
        LET out == ret[1]
        IN  /\ {out[i][2] : i \in 1..Len(out)} = call.codes
            /\ Len(out) = Cardinality(call.codes)
            /\ \A i \in 1..Len(out) :
                  IF i = 1 THEN out[i][1] = ""
                  ELSE /\ out[i][1] = " "
                       /\ StrLess(out[i - 1][2], out[i][2])

\* ------------------------------------------------------------------------
\* C17. whole_program returns exactly the courses of the named lists, each
\* as often as the lists hold it, in non-decreasing CPV order, courses of one
\* CPV in the order in which the lists hold them.
\* ------------------------------------------------------------------------
WholeProgramReturned == call.fn = "whole_program" /\ Len(ret) = 1

\* The named lists of the call one after the other, from the i-th name on
RECURSIVE NamedFrom(_)
NamedFrom(i) ==
    IF i > Len(call.majors_minors) THEN <<>>
    ELSE call.programs[call.majors_minors[i]] \o NamedFrom(i + 1)

\* How often a sequence holds a course
CountIn(seq, c) == Cardinality({k \in 1..Len(seq) : seq[k] = c})

\* C17: same courses as often, CPVs in order, ties in list order.
C17_SameCoursesSortedStable ==
    WholeProgramReturned =>
        LET named == NamedFrom(1)
            out == ret[1]
            all == {named[k] : k \in 1..Len(named)} \cup {out[k] : k \in 1..Len(out)}
        IN  /\ Len(out) = Len(named)
            /\ \A c \in all : CountIn(out, c) = CountIn(named, c)
            /\ \A i, j \in 1..Len(out) : i < j => out[i].cpv <= out[j].cpv
            /\ \A c \in all :
                  SelectSeq(out, LAMBDA d : d.cpv = c.cpv)
                      = SelectSeq(named, LAMBDA d : d.cpv = c.cpv)

\* A call with two lists that share a course and hold courses of one CPV out
\* of code order
C17_Witness ==
    /\ WholeProgramReturned
    /\ Len(call.majors_minors) = 2
    /\ call.majors_minors[1] # call.majors_minors[2]
    /\ CountIn(ret[1], Course(ICT(115), 1130)) = 2
    /\ \E i \in 1..(Len(ret[1]) - 1) :
          /\ ret[1][i].cpv = ret[1][i + 1].cpv
          /\ StrLess(ret[1][i + 1].code, ret[1][i].code)

\* ------------------------------------------------------------------------
\* C18. The substitution step: when the scan reaches an allowed elective and
\* done_extra is not empty, the elective's code is added to done, exactly one
\* code, one with the least suffix, is taken out of done_extra, one
\* 'satisfied by' line is written, and todo stays as it is.
\* ------------------------------------------------------------------------
\* The scan is at an elective that is allowed now
AtAllowedElective ==
    /\ Scanning
    /\ IsElectiveCode(Cur.code)
    /\ is_allowed(Cur, done, semester, progression)

\* C18: what the step at an allowed elective does when done_extra is not empty.
C18_SubstitutionStep ==
    [][(AtAllowedElective /\ done_extra # {}) =>
          /\ done' = done \cup {Cur.code}
          /\ todo' = todo
          /\ \E e \in done_extra :
                /\ done_extra' = done_extra \ {e}
                /\ \A d \in done_extra : StrLeq(CodeSuffix(e), CodeSuffix(d))
                /\ output' = Append(output, SatisfiedLine(e))]_vars

\* A substitution has just been made in a semester that has three courses,
\* with another completed extra course still unused
C18_Witness ==
    /\ pc = "scan"
    /\ output # <<>>
    /\ output[Len(output)].k = "satisfied"
    /\ Cardinality(todo) = LOAD - 1
    /\ done_extra # {}

\* ------------------------------------------------------------------------
\* C19. A fresh elective of year level N is added to todo only if
\* |done| < 8 * N at the moment it is added; when the test fails the elective
\* is added neither to todo nor to done in that scan.
\* ------------------------------------------------------------------------
\* The year level of an elective code: the digit after the prefix
YearLevel(code) == IntAt(code, Len(ELECTIVE_PREFIX))

\* C19: every elective a step adds to todo passed the level test on the done
\* of that moment, and a fresh elective that fails it changes nothing.
C19_LevelGate ==
    [][/\ \A c \in todo' \ todo :
             IsElectiveCode(c.code) => Cardinality(done) < 8 * YearLevel(c.code)
       /\ (/\ AtAllowedElective
           /\ done_extra = {}
           /\ YearLevel(Cur.code) # Raise
           /\ Cardinality(done) >= 8 * YearLevel(Cur.code))
          => (todo' = todo /\ done' = done)]_vars

\* A semester holds a second-year elective, and a first-year elective slot
\* that came up with eight codes done is still in the progression, not done
C19_Witness ==
    /\ pc = "endsem"
    /\ \E c \in todo : IsElectiveCode(c.code) /\ YearLevel(c.code) = 2
    /\ Elective(101) \notin done
    /\ \E k \in 1..Len(progression) : progression[k].code = Elective(101)
    /\ done_extra = {}

\* ------------------------------------------------------------------------
\* C20. Every course placed in a semester's todo has floor(cpv) mod 2 equal
\* to semester mod 2 for the semester of that iteration.
\* ------------------------------------------------------------------------
\* C20: the study period of every course in todo has the semester's parity.
C20_TodoHasSemesterParity ==
    (PlanStudentCalled /\ InSemester) =>
        \A c \in todo : (c.cpv \div 1000) % 2 = semester % 2

\* A run started in semester 2 holds, in its second even semester, the
\* even-period instance of an elective code that the program lists twice
C20_Witness ==
    /\ pc = "endsem"
    /\ start = 2
    /\ semester = 2
    /\ timeout = 2
    /\ \E c \in todo :
          /\ IsElectiveCode(c.code)
          /\ Occurrences(c.code) = 2
          /\ (c.cpv \div 1000) % 2 = 0
    /\ Cardinality(todo) > 1

\* ------------------------------------------------------------------------
\* C21. Every loop iteration writes exactly one 'sem' line, adds one to
\* timeout and flips the semester: from the starting semester on the
\* semesters go 1, 2, 1, 2, ... or 2, 1, 2, 1, ... for the whole run.
\* ------------------------------------------------------------------------
\* The semester of the k-th iteration of a run
SemesterOfIteration(k) ==
    IF k % 2 = 1 THEN start ELSE (IF start = 1 THEN 2 ELSE 1)

\* One 'sem' line per iteration made, each with the semester of its turn
C21_OneLinePerIteration ==
    PlanStudentCalled =>
        /\ Len(SemLines) = timeout
        /\ \A i \in 1..Len(SemLines) : SemLines[i].n = SemesterOfIteration(i)
        /\ semester = SemesterOfIteration(timeout + 1)
        /\ semester \in {1, 2}

\* The end of an iteration writes one 'sem' line, counts it and flips the
\* semester; no other step does any of these
C21_IterationStep ==
    IF pc = "endsem"
    THEN /\ Len(SemLines') = Len(SemLines) + 1
         /\ output'[Len(output')].k = "sem"
         /\ output'[Len(output')].n = semester
         /\ timeout' = timeout + 1
         /\ semester' # semester
    ELSE /\ SemLines' = SemLines
         /\ timeout' = timeout
         /\ semester' = semester

\* C21: one 'sem' line, one count and one flip per iteration, in every run.
C21_SemestersAlternate ==
    [](C21_OneLinePerIteration) /\ [][C21_IterationStep]_vars

\* A run from semester 2 that has filled three semesters, 2, 1 and 2
C21_Witness ==
    /\ start = 2
    /\ Len(SemLines) >= 3
    /\ \A i \in 1..3 : CodesOn(SemLines[i]) # {}
    /\ SemLines[1].n = 2 /\ SemLines[2].n = 1 /\ SemLines[3].n = 2
    /\ semester = 1

\* ------------------------------------------------------------------------
\* C22. The scan goes through the progression once, front to back: when a
\* required course A comes before a course B, A was not in done, had the
\* parity of the semester and had its prerequisites met when the scan of the
\* semester began, and B is in the semester's todo, then A is in it too.
\* ------------------------------------------------------------------------
\* done as it was when the scan of this semester began
DoneAtScanStart == done \ (TodoCodes \cup SubstitutedSince(Len(output)))

\* A required course that could be placed from the start of the scan on
PlaceableFromStart(c) ==
    /\ ~IsElectiveCode(c.code)
    /\ c.code \notin DoneAtScanStart
    /\ (c.cpv \div 1000) % 2 = semester % 2
    /\ PrereqCodes(c.code) \subseteq DoneAtScanStart

\* C22: no placeable required course is passed over for a later course.
C22_ScanOrderIsPriority ==
    (PlanStudentCalled /\ InSemester) =>
        \A a, b \in 1..Len(progression) :
            (a < b /\ progression[b] \in todo /\ PlaceableFromStart(progression[a]))
                => progression[a].code \in TodoCodes

\* A semester is complete in which a course was placed after an earlier
\* placeable course, placed too, and after an earlier required course of the
\* same parity whose prerequisites were not met, left out
C22_Witness ==
    /\ pc = "endsem"
    /\ \E a, b, x \in 1..Len(progression) :
          /\ a < b /\ x < b
          /\ progression[b] \in todo
          /\ PlaceableFromStart(progression[a])
          /\ progression[a] \in todo
          /\ ~IsElectiveCode(progression[x].code)
          /\ (progression[x].cpv \div 1000) % 2 = semester % 2
          /\ progression[x].code \notin done

\* ------------------------------------------------------------------------
\* C23. Completed extra courses are conserved: done_extra starts as the
\* passed codes that are not in the progression, stays disjoint from done,
\* and each of these codes is used by exactly one substitution or is on the
\* WASTED line at the end, never both and never neither.
\* ------------------------------------------------------------------------
\* The passed codes that do not occur in the program
InitialExtra == passed \ {program[k].code : k \in 1..Len(program)}

\* The completed codes named by the 'satisfied by' lines, in order
ConsumedSeq ==
    [j \in 1..Len(LinesOf("satisfied")) |-> LinesOf("satisfied")[j].ts[2][2]]

\* C23: used and unused extra codes split the initial ones, in every state
\* after the first step, and the unused ones are the WASTED line of the end.
C23_ExtraConserved ==
    (PlanStudentCalled /\ pc # "start") =>
        LET consumed == ConsumedSeq
            used == {consumed[j] : j \in 1..Len(consumed)}
            wasted == LinesOf("WASTED")
        IN  /\ done_extra \cap done = {}
            /\ Cardinality(used) = Len(consumed)
            /\ used \cap done_extra = {}
            /\ used \cup done_extra = InitialExtra
            /\ Len(consumed) + Cardinality(done_extra) = Cardinality(InitialExtra)
            /\ pc # "done" => wasted = <<>>
            /\ pc = "raised" => done_extra = {}
            /\ pc = "done" =>
                  IF done_extra = {} THEN wasted = <<>>
                  ELSE /\ Len(wasted) = 1
                       /\ wasted[1].cs = InitialExtra \ used

\* A run has ended with one completed extra course used for an elective and
\* another one reported as wasted
C23_Witness ==
    /\ pc = "done"
    /\ Len(ConsumedSeq) >= 1
    /\ Len(LinesOf("WASTED")) = 1
    /\ Cardinality(InitialExtra) >= 2
    /\ program # <<>>

\* ------------------------------------------------------------------------
\* C24. Electives never push the degree past its budget: when |done| plus
\* the number of required codes not in done is at most COURSES_NEEDED as
\* planning starts, it is so in every state, and the total reported is at
\* most COURSES_NEEDED.
\* ------------------------------------------------------------------------
\* The codes counted toward the degree once d is done and the required
\* courses still open are done too
BudgetUsed(d) == Cardinality(d) + Cardinality(NonElectiveCodes(program) \ d)

\* done as step 1 computes it
DoneAtStart == passed \cap {program[k].code : k \in 1..Len(program)}

\* C24: the budget is kept from the first step to the total.
C24_WithinBudget ==
    (PlanStudentCalled /\ BudgetUsed(DoneAtStart) <= COURSES_NEEDED) =>
        /\ BudgetUsed(done) <= COURSES_NEEDED
        /\ Cardinality(done) <= COURSES_NEEDED
        /\ \A i \in 1..Len(output) :
              output[i].k = "Total" => output[i].n <= COURSES_NEEDED

\* A run of a program with fewer required codes than COURSES_NEEDED has
\* ended with a total of exactly COURSES_NEEDED, some electives placed and
\* an elective slot still open
C24_Witness ==
    /\ Reported
    /\ Cardinality(NonElectiveCodes(program)) < COURSES_NEEDED
    /\ output[Len(output)].n = COURSES_NEEDED
    /\ \E code \in Scheduled : IsElectiveCode(code)
    /\ \E k \in 1..Len(program) :
          IsElectiveCode(program[k].code) /\ program[k].code \notin done

\* ------------------------------------------------------------------------
\* C25. With an empty progression plan_student does not fail and the plan is
\* empty: no course is placed in any semester, every passed code is reported
\* as wasted and the total of courses done is 0.
\* ------------------------------------------------------------------------
\* C25: the run of an empty program, state by state and at its end.
C25_EmptyProgression ==
    (PlanStudentCalled /\ program = <<>>) =>
        /\ pc # "raised"
        /\ done = {}
        /\ todo = {}
        /\ \A i \in 1..Len(SemLines) : SemLines[i].ts = <<>>
        /\ LinesOf("satisfied") = <<>>
        /\ pc # "start" => done_extra = passed
        /\ pc = "done" =>
              /\ output[Len(output)] = Line("Total", 0, {}, <<>>)
              /\ passed # {} => output[Len(output) - 1] = Line("WASTED", 0, passed, <<>>)
              /\ passed = {} => LinesOf("WASTED") = <<>>

\* The run of an empty program for a student with passed courses has ended
\* after MAX_SEMESTERS empty semesters
C25_Witness ==
    /\ Reported
    /\ program = <<>>
    /\ Cardinality(passed) >= 2
    /\ Len(SemLines) = MAX_SEMESTERS
    /\ Len(LinesOf("WASTED")) = 1

\* ------------------------------------------------------------------------
\* C26. plan_student leaves its inputs unchanged: the student's passed set
\* and the progression list given hold after the run what they held before
\* it, all changes being made to done, done_extra and the local progression.
\* ------------------------------------------------------------------------
\* C26: no step of a run changes the passed set, the program given or the
\* starting semester given.
C26_InputsUnchanged ==
    [][PlanStudentCalled =>
          (passed' = passed /\ program' = program /\ start' = start)]_vars

\* A run has ended that used a completed extra course, which the student's
\* set still holds, and that took courses out of its local progression
C26_Witness ==
    /\ Reported
    /\ \E j \in 1..Len(ConsumedSeq) :
          ConsumedSeq[j] \in passed /\ ConsumedSeq[j] \notin done_extra
    /\ Len(progression) < Len(program)
    /\ done # DoneAtStart

====
